---- MODULE Spec2Model ----
(***************************************************************************)
(* The account service of internal/auth (src/unnamed/part_000) over the    *)
(* path store it is written against.  Request workers call the service     *)
(* concurrently; one step of the model is one store call of a service      *)
(* method together with the local code around it, since only store calls   *)
(* touch shared state.                                                     *)
(*                                                                         *)
(* The packages internal/storage and internal/models are not part of the   *)
(* sources at hand; their operations are modelled from the written         *)
(* specification (sections 3, 4.1 and 6).                                  *)
(***************************************************************************)
EXTENDS Naturals, Sequences, FiniteSets, TLC

VARIABLES
    dirs,   \* the store's directories: a set of paths
    files,  \* the store's files: a function from the paths of files to payloads
    call,   \* call[w]: the service call worker w is inside, or Idle
    ret,    \* what the call that returned in the last step returned, else NoRet
    hist,   \* hist[e]: history of the account of e (what has succeeded so far)
    backend \* "up", or "down": the store's backend fails every call made of it

vars == <<dirs, files, call, ret, hist, backend>>

(***************************************************************************)
(* Bounds and input sets.                                                  *)
(***************************************************************************)
NumCallers == 2

Callers == 1..NumCallers

Emails == {"a@b.co", "u@x.com"}

Passwords == {"secret1", "secret2"}

\* A credential the model constructor refuses (spec 4.2, UserCreationFailed).
RejectedPasswords == {""}

Dongles == {"token-A", "token-B"}

\* The arguments of ValidateEmail, as sequences of characters.
MaxEmailLen == 5

EmailChars == {"@", "a", "."}

EmailInputs == UNION {[1..n -> EmailChars] : n \in 0..MaxEmailLen}

\* How an adapter reports an absent file to Go code: the sentinel error
\* storage.ErrNotFound, or a nil item with a nil error.  The service handles both.
NotFoundStyles == {"error", "nil"}

(***************************************************************************)
(* Errors.  "nil" is Go's nil error.                                       *)
(***************************************************************************)
NoErr == "nil"

ErrNotFound == "storage: not found"

ErrAlreadyExists == "storage: already exists"

ErrParentMissing == "storage: parent missing"

\* A transport, permission or I/O failure of the backend (spec 7).
ErrBackendUnavailable == "storage: backend unavailable"

ErrUserNotFound == "user not found"

ErrUserAlreadyExists == "user already exists"

ErrInvalidPassword == "models: invalid password"

\* fmt.Errorf("<context>: %w", err)
Wrap(context, err) == context \o ": " \o err

ErrUserNotConfirmed == "user not confirmed"

ErrUserDoesNotExist == "user does not exist"

ErrInvalidUserData == "invalid user data format"

(***************************************************************************)
(* internal/models: the user record and its serialisation.                 *)
(***************************************************************************)
NoHash == <<>>

\* A nil *models.User.
NoUser == [email |-> "", password_hash |-> NoHash, confirmed |-> FALSE, dongle |-> ""]

\* The stored credential: a digest of the password, never the password itself.
HashPassword(password) == <<"hash", password>>

SetPassword(user, password) ==
    IF password \in RejectedPasswords
    THEN [user |-> user, err |-> ErrInvalidPassword]
    ELSE [user |-> [user EXCEPT !.password_hash = HashPassword(password)], err |-> NoErr]

NewUser(email, password) ==
    SetPassword([email |-> email, password_hash |-> NoHash, confirmed |-> FALSE, dongle |-> ""],
                password)

Authenticate(user, password) == user.password_hash = HashPassword(password)

GetConfirmed(user) == user.confirmed

SetConfirmed(user) == [user EXCEPT !.confirmed = TRUE]

SetDongle(user, dongle) == [user EXCEPT !.dongle = dongle]

GetDongle(user) == user.dongle

\* The payload: the self-describing record as a text blob, field by field.
ToJSON(user) ==
    <<<<"email", user.email>>, <<"password_hash", user.password_hash>>,
      <<"confirmed", IF user.confirmed THEN "true" ELSE "false">>,
      <<"dongle", user.dongle>>>>

Field(data, name) == (CHOOSE i \in 1..Len(data) : data[i][1] = name)

HasField(data, name) == \E i \in 1..Len(data) : data[i][1] = name

UserFromJSON(data) ==
    IF \A n \in {"email", "password_hash", "confirmed", "dongle"} : HasField(data, n)
    THEN [user |-> [email |-> data[Field(data, "email")][2],
                    password_hash |-> data[Field(data, "password_hash")][2],
                    confirmed |-> data[Field(data, "confirmed")][2] = "true",
                    dongle |-> data[Field(data, "dongle")][2]],
          err |-> NoErr]
    ELSE [user |-> NoUser, err |-> ErrInvalidUserData]

(***************************************************************************)
(* internal/storage: the path store (spec 4.1).                            *)
(***************************************************************************)
NilItem == [path |-> <<>>, data |-> <<>>]

Parent(path) == SubSeq(path, 1, Len(path) - 1)

Put(fs, path, data) == [p \in DOMAIN fs \cup {path} |-> IF p = path THEN data ELSE fs[p]]

Remove(fs, path) == [p \in DOMAIN fs \ {path} |-> fs[p]]

GetFile(path, style) ==
    IF backend = "down"
    THEN [item |-> NilItem, err |-> ErrBackendUnavailable]
    ELSE IF path \in DOMAIN files
    THEN [item |-> [path |-> path, data |-> files[path]], err |-> NoErr]
    ELSE IF style = "error"
         THEN [item |-> NilItem, err |-> ErrNotFound]
         ELSE [item |-> NilItem, err |-> NoErr]

CreateDir(path) ==
    IF backend = "down"
    THEN [err |-> ErrBackendUnavailable, dirs |-> dirs]
    ELSE [err |-> NoErr, dirs |-> dirs \cup {path}]

CreateFile(path, data) ==
    IF backend = "down"
    THEN [err |-> ErrBackendUnavailable, files |-> files]
    ELSE IF path \in DOMAIN files \/ path \in dirs
    THEN [err |-> ErrAlreadyExists, files |-> files]
    ELSE IF Parent(path) \notin dirs
         THEN [err |-> ErrParentMissing, files |-> files]
         ELSE [err |-> NoErr, files |-> Put(files, path, data)]

UpdateFile(path, data) ==
    IF backend = "down"
    THEN [err |-> ErrBackendUnavailable, files |-> files]
    ELSE IF path \notin DOMAIN files
    THEN [err |-> ErrNotFound, files |-> files]
    ELSE [err |-> NoErr, files |-> Put(files, path, data)]

DeleteFile(path) ==
    IF backend = "down"
    THEN [err |-> ErrBackendUnavailable, files |-> files]
    ELSE IF path \notin DOMAIN files
    THEN [err |-> ErrNotFound, files |-> files]
    ELSE [err |-> NoErr, files |-> Remove(files, path)]

(***************************************************************************)
(* internal/auth: the service's methods as functions of the store's state. *)
(***************************************************************************)
UserDir == "users"

\* getUserPath that drops the email: one file for every account.
getUserPathShared(email) == <<"home", UserDir, "user">>

getUserPath(email) == <<"home", UserDir, email>>

\* UserExists without the nil check of line 39.
UserExistsIgnoresItem(email, style) ==
    LET r == GetFile(getUserPath(email), style)
    IN  IF r.err # NoErr
        THEN IF r.err = ErrNotFound
             THEN [val |-> FALSE, err |-> NoErr]
             ELSE [val |-> FALSE, err |-> r.err]
        ELSE [val |-> TRUE, err |-> NoErr]

\* UserExists that takes every error of the read for absence.
UserExistsAnyErrorAbsent(email, style) ==
    LET r == GetFile(getUserPath(email), style)
    IN  IF r.err # NoErr
        THEN [val |-> FALSE, err |-> NoErr]
        ELSE [val |-> r.item # NilItem, err |-> NoErr]

UserExists(email, style) ==
    LET r == GetFile(getUserPath(email), style)
    IN  IF r.err # NoErr
        THEN IF r.err = ErrNotFound
             THEN [val |-> FALSE, err |-> NoErr]
             ELSE [val |-> FALSE, err |-> r.err]
        ELSE [val |-> r.item # NilItem, err |-> NoErr]

\* GetUser without the nil check of lines 48-50: a nil item is an empty account.
GetUserOfNilItem(email, style) ==
    LET r == GetFile(getUserPath(email), style)
    IN  IF r.err # NoErr
        THEN [user |-> NoUser, err |-> r.err]
        ELSE IF r.item = NilItem
             THEN [user |-> [NoUser EXCEPT !.email = email], err |-> NoErr]
             ELSE UserFromJSON(r.item.data)

GetUser(email, style) ==
    LET r == GetFile(getUserPath(email), style)
    IN  IF r.err # NoErr
        THEN [user |-> NoUser, err |-> r.err]
        ELSE IF r.item = NilItem
             THEN [user |-> NoUser, err |-> ErrUserNotFound]
             ELSE UserFromJSON(r.item.data)

\* AuthenticateUser without the gate of lines 110-112.
AuthenticateUserUngated(email, password, style) ==
    LET r == GetUser(email, style)
    IN  IF r.err # NoErr
        THEN [val |-> FALSE, err |-> r.err]
        ELSE [val |-> Authenticate(r.user, password), err |-> NoErr]

AuthenticateUser(email, password, style) ==
    LET r == GetUser(email, style)
    IN  IF r.err # NoErr
        THEN [val |-> FALSE, err |-> r.err]
        ELSE IF ~GetConfirmed(r.user)
             THEN [val |-> FALSE, err |-> ErrUserNotConfirmed]
             ELSE [val |-> Authenticate(r.user, password), err |-> NoErr]

GetUserDongle(email, style) ==
    LET r == GetUser(email, style)
    IN  IF r.err # NoErr
        THEN [str |-> "", err |-> r.err]
        ELSE [str |-> GetDongle(r.user), err |-> NoErr]

\* setUser that creates the file when there is none to update.
setUserUpsert(user) ==
    [err |-> NoErr, files |-> Put(files, getUserPath(user.email), ToJSON(user))]

\* setUser that keeps a confirmation persisted since the caller's read.
setUserKeepsConfirmed(user) ==
    LET path == getUserPath(user.email)
    IN  IF path \in DOMAIN files /\ UserFromJSON(files[path]).user.confirmed
        THEN UpdateFile(path, ToJSON(SetConfirmed(user)))
        ELSE UpdateFile(path, ToJSON(user))

setUser(user) == UpdateFile(getUserPath(user.email), ToJSON(user))

\* strings.Contains(s, c) for a c of one character; a string is the sequence of
\* its characters.
Contains(s, c) == \E i \in 1..Len(s) : s[i] = c

\* ValidateEmail (lines 183-186).
ValidateEmail(email) == Contains(email, "@") /\ Len(email) > 3

(***************************************************************************)
(* Workers.                                                                *)
(***************************************************************************)
\* call[w]: the method, its arguments, its local user, and the store call it is
\* about to make (pc): "home", "users", "file" in CreateUser, "delete" in
\* DeleteUser, and in a mutation "write1" or "write0": about to call setUser,
\* having read a confirmed, or an unconfirmed, account.
Idle == [op |-> "none", pc |-> "idle", email |-> "", arg |-> "", user |-> NoUser]

\* A return: the call, its results (val, str, user: the ones its signature has) and
\* its error, and the store call of the method it returned after.
NoRet == [op |-> "none", email |-> "", arg |-> "", val |-> FALSE, str |-> "",
          user |-> NoUser, err |-> NoErr, at |-> "none"]

Result(op, email, arg, val, str, user, err, at) ==
    [op |-> op, email |-> email, arg |-> arg, val |-> val, str |-> str,
     user |-> user, err |-> err, at |-> at]

\* History of an account since the CreateUser that made it: the password it was
\* created with while no UpdatePassword has succeeded ("" after one), whether a
\* ConfirmUser has succeeded, and the last successful write of its file.  NoHist
\* when no CreateUser has succeeded, or a DeleteUser has since.
NoWrite == [op |-> "none", arg |-> "", saw |-> FALSE]

NoHist == [created |-> "", confirmed |-> FALSE, last |-> NoWrite]

Init ==
    /\ dirs = {}
    /\ files = <<>>
    /\ call = [w \in Callers |-> Idle]
    /\ ret = NoRet
    /\ hist = [e \in Emails |-> NoHist]
    /\ backend = "up"

Returns(w, r) ==
    /\ call' = [call EXCEPT ![w] = Idle]
    /\ ret' = r

Enters(w, op, pc, email, arg, user) ==
    /\ call' = [call EXCEPT ![w] = [op |-> op, pc |-> pc, email |-> email,
                                    arg |-> arg, user |-> user]]
    /\ ret' = NoRet

\* UserExists (lines 30-40): one read.
CallUserExists(w, email) ==
    /\ call[w] = Idle
    /\ \E style \in NotFoundStyles :
          LET r == UserExists(email, style)
          IN  Returns(w, Result("UserExists", email, "", r.val, "", NoUser, r.err, "GetFile"))
    /\ UNCHANGED <<dirs, files, hist, backend>>

\* GetUser (lines 42-64): one read.
CallGetUser(w, email) ==
    /\ call[w] = Idle
    /\ \E style \in NotFoundStyles :
          LET r == GetUser(email, style)
          IN  Returns(w, Result("GetUser", email, "", FALSE, "", r.user, r.err, "GetFile"))
    /\ UNCHANGED <<dirs, files, hist, backend>>

\* AuthenticateUser (lines 104-115): one read.
CallAuthenticateUser(w, email, password) ==
    /\ call[w] = Idle
    /\ \E style \in NotFoundStyles :
          LET r == AuthenticateUser(email, password, style)
          IN  Returns(w, Result("AuthenticateUser", email, password, r.val, "", NoUser, r.err,
                                "GetFile"))
    /\ UNCHANGED <<dirs, files, hist, backend>>

\* GetUserDongle (lines 141-148): one read.
CallGetUserDongle(w, email) ==
    /\ call[w] = Idle
    /\ \E style \in NotFoundStyles :
          LET r == GetUserDongle(email, style)
          IN  Returns(w, Result("GetUserDongle", email, "", FALSE, r.str, NoUser, r.err, "GetFile"))
    /\ UNCHANGED <<dirs, files, hist, backend>>

\* CreateUser without the check of lines 72-74.
CreateUserUnchecked(w, email, password) ==
    /\ call[w] = Idle
    /\ LET n == NewUser(email, password)
       IN  IF n.err # NoErr
           THEN Returns(w, Result("CreateUser", email, password, FALSE, "", NoUser,
                                  Wrap("error creating user model", n.err), "GetFile"))
           ELSE Enters(w, "CreateUser", "home", email, password, n.user)
    /\ UNCHANGED <<dirs, files, hist, backend>>

\* CreateUser, lines 66-79: the existence check and the model's construction.
CreateUser(w, email, password) ==
    /\ call[w] = Idle
    /\ \E style \in NotFoundStyles :
          LET x == UserExists(email, style)
              n == NewUser(email, password)
          IN  IF x.err # NoErr
              THEN Returns(w, Result("CreateUser", email, password, FALSE, "", NoUser,
                                     Wrap("error checking user existence", x.err), "GetFile"))
              ELSE IF x.val
              THEN Returns(w, Result("CreateUser", email, password, FALSE, "", NoUser,
                                     ErrUserAlreadyExists, "GetFile"))
              ELSE IF n.err # NoErr
              THEN Returns(w, Result("CreateUser", email, password, FALSE, "", NoUser,
                                     Wrap("error creating user model", n.err), "GetFile"))
              ELSE Enters(w, "CreateUser", "home", email, password, n.user)
    /\ UNCHANGED <<dirs, files, hist, backend>>

\* CreateUser without the CreateDir(home) of line 83.
CreateUserHomeSkipped(w) ==
    /\ call[w].op = "CreateUser" /\ call[w].pc = "home"
    /\ call' = [call EXCEPT ![w].pc = "users"]
    /\ ret' = NoRet
    /\ UNCHANGED <<dirs, files, hist, backend>>

\* CreateUser, lines 81-86: CreateDir(home).
CreateUserHome(w) ==
    /\ call[w].op = "CreateUser" /\ call[w].pc = "home"
    /\ LET r == CreateDir(<<"home">>)
       IN  /\ dirs' = r.dirs
           /\ IF r.err # NoErr
              THEN Returns(w, Result("CreateUser", call[w].email, call[w].arg, FALSE, "",
                                     NoUser, Wrap("error creating home directory", r.err),
                                     "CreateDir"))
              ELSE /\ call' = [call EXCEPT ![w].pc = "users"]
                   /\ ret' = NoRet
    /\ UNCHANGED <<files, hist, backend>>

\* CreateUser that goes on to CreateFile whatever CreateDir(home/users) returned.
CreateUserUsersUnchecked(w) ==
    /\ call[w].op = "CreateUser" /\ call[w].pc = "users"
    /\ dirs' = CreateDir(<<"home", UserDir>>).dirs
    /\ call' = [call EXCEPT ![w].pc = "file"]
    /\ ret' = NoRet
    /\ UNCHANGED <<files, hist, backend>>

\* CreateUser, lines 88-93: CreateDir(home/users).
CreateUserUsers(w) ==
    /\ call[w].op = "CreateUser" /\ call[w].pc = "users"
    /\ LET r == CreateDir(<<"home", UserDir>>)
       IN  /\ dirs' = r.dirs
           /\ IF r.err # NoErr
              THEN Returns(w, Result("CreateUser", call[w].email, call[w].arg, FALSE, "",
                                     NoUser, Wrap("error creating users directory", r.err),
                                     "CreateDir"))
              ELSE /\ call' = [call EXCEPT ![w].pc = "file"]
                   /\ ret' = NoRet
    /\ UNCHANGED <<files, hist, backend>>

\* CreateUser that ends with a write of the file whether or not there is one.
CreateUserFileOverwrites(w) ==
    /\ call[w].op = "CreateUser" /\ call[w].pc = "file"
    /\ LET email == call[w].email
       IN  /\ files' = Put(files, getUserPath(email), ToJSON(call[w].user))
           /\ Returns(w, Result("CreateUser", email, call[w].arg, FALSE, "", NoUser, NoErr,
                             "CreateFile"))
           /\ hist' = [hist EXCEPT ![email] =
                          [created |-> call[w].arg, confirmed |-> FALSE,
                           last |-> [op |-> "CreateUser", arg |-> call[w].arg,
                                     saw |-> FALSE]]]
    /\ UNCHANGED <<dirs, backend>>

\* CreateUser, lines 95-101: CreateFile(home/users/<email>).
CreateUserFile(w) ==
    /\ call[w].op = "CreateUser" /\ call[w].pc = "file"
    /\ LET email == call[w].email
           r == CreateFile(getUserPath(email), ToJSON(call[w].user))
       IN  /\ files' = r.files
           /\ Returns(w, Result("CreateUser", email, call[w].arg, FALSE, "", NoUser, r.err,
                             "CreateFile"))
           /\ hist' = IF r.err = NoErr
                      THEN [hist EXCEPT ![email] =
                               [created |-> call[w].arg, confirmed |-> FALSE,
                                last |-> [op |-> "CreateUser", arg |-> call[w].arg,
                                          saw |-> FALSE]]]
                      ELSE hist
    /\ UNCHANGED <<dirs, backend>>

\* UpdatePassword that validates the new password and persists the copy as read.
UpdatePasswordKeepsHash(w, email, newPassword) ==
    /\ call[w] = Idle
    /\ \E style \in NotFoundStyles :
          LET r == GetUser(email, style)
              s == SetPassword(r.user, newPassword)
          IN  IF r.err # NoErr
              THEN Returns(w, Result("UpdatePassword", email, newPassword, FALSE, "", NoUser,
                                     r.err, "GetFile"))
              ELSE IF s.err # NoErr
              THEN Returns(w, Result("UpdatePassword", email, newPassword, FALSE, "", NoUser,
                                     s.err, "GetFile"))
              ELSE Enters(w, "UpdatePassword", IF GetConfirmed(r.user) THEN "write1" ELSE "write0",
                          email, newPassword, r.user)
    /\ UNCHANGED <<dirs, files, hist, backend>>

\* UpdatePassword that persists a new record of the email and the new password.
UpdatePasswordFreshRecord(w, email, newPassword) ==
    /\ call[w] = Idle
    /\ \E style \in NotFoundStyles :
          LET r == GetUser(email, style)
              s == NewUser(email, newPassword)
          IN  IF r.err # NoErr
              THEN Returns(w, Result("UpdatePassword", email, newPassword, FALSE, "", NoUser,
                                     r.err, "GetFile"))
              ELSE IF s.err # NoErr
              THEN Returns(w, Result("UpdatePassword", email, newPassword, FALSE, "", NoUser,
                                     s.err, "GetFile"))
              ELSE Enters(w, "UpdatePassword", IF GetConfirmed(r.user) THEN "write1" ELSE "write0",
                          email, newPassword, s.user)
    /\ UNCHANGED <<dirs, files, hist, backend>>

\* UpdatePassword, lines 117-126: the read and the change of the copy.
UpdatePassword(w, email, newPassword) ==
    /\ call[w] = Idle
    /\ \E style \in NotFoundStyles :
          LET r == GetUser(email, style)
              s == SetPassword(r.user, newPassword)
          IN  IF r.err # NoErr
              THEN Returns(w, Result("UpdatePassword", email, newPassword, FALSE, "", NoUser,
                                     r.err, "GetFile"))
              ELSE IF s.err # NoErr
              THEN Returns(w, Result("UpdatePassword", email, newPassword, FALSE, "", NoUser,
                                     s.err, "GetFile"))
              ELSE Enters(w, "UpdatePassword", IF GetConfirmed(r.user) THEN "write1" ELSE "write0",
                          email, newPassword, s.user)
    /\ UNCHANGED <<dirs, files, hist, backend>>

\* SetUserDongle that persists the copy as read.
SetUserDongleKeepsToken(w, email, dongle) ==
    /\ call[w] = Idle
    /\ \E style \in NotFoundStyles :
          LET r == GetUser(email, style)
          IN  IF r.err # NoErr
              THEN Returns(w, Result("SetUserDongle", email, dongle, FALSE, "", NoUser, r.err,
                                     "GetFile"))
              ELSE Enters(w, "SetUserDongle", IF GetConfirmed(r.user) THEN "write1" ELSE "write0",
                          email, dongle, r.user)
    /\ UNCHANGED <<dirs, files, hist, backend>>

\* SetUserDongle, lines 131-137.
SetUserDongle(w, email, dongle) ==
    /\ call[w] = Idle
    /\ \E style \in NotFoundStyles :
          LET r == GetUser(email, style)
          IN  IF r.err # NoErr
              THEN Returns(w, Result("SetUserDongle", email, dongle, FALSE, "", NoUser, r.err,
                                     "GetFile"))
              ELSE Enters(w, "SetUserDongle", IF GetConfirmed(r.user) THEN "write1" ELSE "write0",
                          email, dongle, SetDongle(r.user, dongle))
    /\ UNCHANGED <<dirs, files, hist, backend>>

\* ConfirmUser, lines 150-156.
ConfirmUser(w, email) ==
    /\ call[w] = Idle
    /\ \E style \in NotFoundStyles :
          LET r == GetUser(email, style)
          IN  IF r.err # NoErr
              THEN Returns(w, Result("ConfirmUser", email, "", FALSE, "", NoUser, r.err, "GetFile"))
              ELSE Enters(w, "ConfirmUser", IF GetConfirmed(r.user) THEN "write1" ELSE "write0",
                          email, "", SetConfirmed(r.user))
    /\ UNCHANGED <<dirs, files, hist, backend>>

\* The write that ends UpdatePassword (128), SetUserDongle (138) and ConfirmUser (157).
CallSetUser(w) ==
    /\ call[w].pc \in {"write0", "write1"}
    /\ LET email == call[w].email
           op == call[w].op
           r == setUser(call[w].user)
       IN  /\ files' = r.files
           /\ Returns(w, Result(op, email, call[w].arg, FALSE, "", NoUser, r.err, "UpdateFile"))
           /\ hist' = IF r.err = NoErr
                      THEN [hist EXCEPT ![email] =
                               [created |-> IF op = "UpdatePassword" THEN "" ELSE @.created,
                                confirmed |-> @.confirmed \/ op = "ConfirmUser",
                                last |-> [op |-> op, arg |-> call[w].arg,
                                          saw |-> call[w].pc = "write1"]]]
                      ELSE hist
    /\ UNCHANGED <<dirs, backend>>

\* DeleteUser without the check of lines 165-167.
DeleteUserUnchecked(w, email) ==
    /\ call[w] = Idle
    /\ Enters(w, "DeleteUser", "delete", email, "", NoUser)
    /\ UNCHANGED <<dirs, files, hist, backend>>

\* DeleteUser, lines 160-167: the existence check.
DeleteUser(w, email) ==
    /\ call[w] = Idle
    /\ \E style \in NotFoundStyles :
          LET x == UserExists(email, style)
          IN  IF x.err # NoErr
              THEN Returns(w, Result("DeleteUser", email, "", FALSE, "", NoUser, x.err, "GetFile"))
              ELSE IF ~x.val
              THEN Returns(w, Result("DeleteUser", email, "", FALSE, "", NoUser,
                                     ErrUserDoesNotExist, "GetFile"))
              ELSE Enters(w, "DeleteUser", "delete", email, "", NoUser)
    /\ UNCHANGED <<dirs, files, hist, backend>>

\* DeleteUser, lines 169-170: DeleteFile.
DeleteUserFile(w) ==
    /\ call[w].op = "DeleteUser" /\ call[w].pc = "delete"
    /\ LET email == call[w].email
           r == DeleteFile(getUserPath(email))
       IN  /\ files' = r.files
           /\ Returns(w, Result("DeleteUser", email, "", FALSE, "", NoUser, r.err, "DeleteFile"))
           /\ hist' = IF r.err = NoErr THEN [hist EXCEPT ![email] = NoHist] ELSE hist
    /\ UNCHANGED <<dirs, backend>>

\* The steps of the calls worker w makes on the accounts of E with the passwords
\* of P and the tokens of D: each is one call of the store.
CallsOf(w, E, P, D) ==
    \/ \E e \in E : CallUserExists(w, e)
    \/ \E e \in E : CallGetUser(w, e)
    \/ \E e \in E, p \in P : CallAuthenticateUser(w, e, p)
    \/ \E e \in E : CallGetUserDongle(w, e)
    \/ \E e \in E, p \in P \cup RejectedPasswords : CreateUser(w, e, p)
    \/ CreateUserHome(w)
    \/ CreateUserUsers(w)
    \/ CreateUserFile(w)
    \/ \E e \in E, p \in P \cup RejectedPasswords : UpdatePassword(w, e, p)
    \/ \E e \in E, d \in D : SetUserDongle(w, e, d)
    \/ \E e \in E : ConfirmUser(w, e)
    \/ CallSetUser(w)
    \/ \E e \in E : DeleteUser(w, e)
    \/ DeleteUserFile(w)

Calls(E, P, D) == \E w \in Callers : CallsOf(w, E, P, D)

NextOver(E) == Calls(E, Passwords, Dongles)

\* Concurrent workers on one account.
Next == NextOver({"u@x.com"})

Spec == Init /\ [][Next]_vars

\* Workers whose calls do not overlap: a worker steps while no other is inside a
\* call.
NextSerial ==
    \E w \in Callers :
        /\ \A other \in Callers \ {w} : call[other] = Idle
        /\ CallsOf(w, {"u@x.com"}, Passwords, Dongles)

SpecSerial == Init /\ [][NextSerial]_vars

\* Concurrent workers on two accounts, with one password and one token: worker 1
\* calls on both accounts, worker 2 on one of them (and sets no token).
NextAccounts ==
    \/ CallsOf(1, Emails, {"secret1"}, {"token-A"})
    \/ CallsOf(2, {"a@b.co"}, {"secret1"}, {})

SpecAccounts == Init /\ [][NextAccounts]_vars

\* ValidateEmail: it reads no state, and returns.
CallValidateEmail(w, email) ==
    /\ call[w] = Idle
    /\ Returns(w, Result("ValidateEmail", email, "", ValidateEmail(email), "", NoUser, NoErr,
                         "none"))
    /\ UNCHANGED <<dirs, files, hist, backend>>

\* The strings ValidateEmail is called with: every string of at most MaxEmailLen
\* characters of EmailChars.
NextValidate == \E w \in Callers, email \in EmailInputs : CallValidateEmail(w, email)

SpecValidate == Init /\ [][NextValidate]_vars

\* The backend starts failing the calls made of it, and recovers.
BackendFails ==
    /\ backend = "up"
    /\ backend' = "down"
    /\ ret' = NoRet
    /\ UNCHANGED <<dirs, files, call, hist>>

BackendRecovers ==
    /\ backend = "down"
    /\ backend' = "up"
    /\ ret' = NoRet
    /\ UNCHANGED <<dirs, files, call, hist>>

\* Concurrent workers on one account, with one password and one token, over a
\* backend that may fail any call.
NextFlaky == Calls({"u@x.com"}, {"secret1"}, {"token-A"}) \/ BackendFails \/ BackendRecovers

SpecFlaky == Init /\ [][NextFlaky]_vars

(***************************************************************************)
(* What the claims speak of.                                               *)
(***************************************************************************)
Exists(e) == getUserPath(e) \in DOMAIN files

\* The persisted account of e (when Exists(e)).
StoredUser(e) == UserFromJSON(files[getUserPath(e)]).user

AnyPassword == Passwords \cup RejectedPasswords

\* The not-found outcomes a caller of GetUser branches on: the store's sentinel,
\* returned as it is by line 46, and the error of line 49.
NotFoundOutcomes == {ErrNotFound, ErrUserNotFound}

Mutations == {"UpdatePassword", "SetUserDongle", "ConfirmUser"}

\* The call `op` returned in the last step.  The four reading calls are one step
\* that leaves the store and the history as they are, so in such a state files
\* and hist are those the call saw.
Returned(op) == ret.op = op

\* C1: AuthenticateUser on an existing account whose persisted confirmed flag is
\* false returns (false, "user not confirmed"), whatever password is supplied,
\* the stored one included.
C1_UnconfirmedNeverAuthenticates ==
    (Returned("AuthenticateUser") /\ Exists(ret.email) /\ ~StoredUser(ret.email).confirmed)
        => (ret.val = FALSE /\ ret.err = ErrUserNotConfirmed)

\* C1's case: the correct password of an unconfirmed account was refused.
C1_Witness ==
    /\ Returned("AuthenticateUser") /\ ret.err = ErrUserNotConfirmed /\ ret.val = FALSE
    /\ Exists(ret.email) /\ ~StoredUser(ret.email).confirmed
    /\ Authenticate(StoredUser(ret.email), ret.arg)

\* C2: once the persisted confirmed flag of an account is true, no step of any
\* caller makes it false while the account's file exists.
C2_ConfirmedNeverReverts ==
    [][\A e \in Emails :
          (Exists(e) /\ StoredUser(e).confirmed /\ Exists(e)') => StoredUser(e)'.confirmed]_vars

\* C3: when CreateUser(e, pw) and then ConfirmUser(e) have succeeded and neither an
\* UpdatePassword nor a DeleteUser has since, AuthenticateUser(e, p) returns
\* (p = pw, nil).
C3_AuthenticatesAfterConfirm ==
    (/\ Returned("AuthenticateUser")
     /\ hist[ret.email].created # "" /\ hist[ret.email].confirmed)
        => (ret.err = NoErr /\ ret.val = (ret.arg = hist[ret.email].created))

\* C4: UserExists(e) returns (true, nil) when a CreateUser(e, _) has succeeded and no
\* DeleteUser(e) has since, and (false, nil) otherwise.
C4_UserExistsFollowsCreation ==
    Returned("UserExists")
        => (ret.err = NoErr /\ ret.val = (hist[ret.email].last.op # "none"))

\* C4's case: UserExists answered true for an account CreateUser made, after a
\* later write of it.
C4_Witness ==
    /\ Returned("UserExists") /\ ret.val = TRUE /\ ret.err = NoErr
    /\ hist[ret.email].last.op \in Mutations

\* C5: CreateUser for an email whose account exists returns "user already exists",
\* whatever the password, and leaves the files and the directories as they were;
\* the call is over, so nothing of it runs later.
C5_CreateExistingRefused ==
    [][\A w \in Callers, e \in Emails, p \in AnyPassword :
          (CreateUser(w, e, p) /\ Exists(e))
              => (/\ ret'.err = ErrUserAlreadyExists
                  /\ call'[w] = Idle
                  /\ files' = files /\ dirs' = dirs)]_vars

\* C5's case: a second CreateUser, with a password other than the account's, was
\* refused.
C5_Witness ==
    /\ ret.op = "CreateUser" /\ ret.err = ErrUserAlreadyExists
    /\ Exists(ret.email) /\ ret.arg \in Passwords
    /\ ~Authenticate(StoredUser(ret.email), ret.arg)

\* C6: when the last write of the account is that of an UpdatePassword(e, newPw)
\* which read a confirmed account, AuthenticateUser(e, p) returns (p = newPw, nil):
\* true for newPw, false for every other password, the former one included.
C6_PasswordReplaced ==
    (/\ Returned("AuthenticateUser")
     /\ hist[ret.email].last.op = "UpdatePassword" /\ hist[ret.email].last.saw)
        => (ret.err = NoErr /\ ret.val = (ret.arg = hist[ret.email].last.arg))

\* C6's case: after an UpdatePassword on a confirmed account, another password
\* (secret1 and secret2 are the only ones an account ever had) was answered false.
C6_Witness ==
    /\ Returned("AuthenticateUser") /\ ret.err = NoErr /\ ret.val = FALSE
    /\ hist[ret.email].last.op = "UpdatePassword" /\ hist[ret.email].last.saw
    /\ ret.arg \in Passwords /\ ret.arg # hist[ret.email].last.arg

\* C7: DeleteUser(e) for an absent account returns "user does not exist" and changes
\* nothing; its DeleteFile on an existing account succeeds and removes the file;
\* and while the file is absent UserExists returns (false, nil) and GetUser fails
\* with a not-found outcome.
C7_DeleteUser ==
    [][\A w \in Callers, e \in Emails :
          /\ (DeleteUser(w, e) /\ ~Exists(e))
                => (/\ ret'.err = ErrUserDoesNotExist /\ call'[w] = Idle
                    /\ files' = files /\ dirs' = dirs)
          /\ (DeleteUserFile(w) /\ call[w].email = e /\ Exists(e))
                => (ret'.err = NoErr /\ ~Exists(e)' /\ dirs' = dirs)
          /\ (CallUserExists(w, e) /\ ~Exists(e))
                => (ret'.val = FALSE /\ ret'.err = NoErr)
          /\ (CallGetUser(w, e) /\ ~Exists(e))
                => (ret'.err \in NotFoundOutcomes /\ ret'.user = NoUser)]_vars

\* C7's case: a GetUser failed as not found on an account that had been created
\* and confirmed: a call that read it confirmed is still under way, and its file
\* is gone.
C7_Witness ==
    /\ ret.op = "GetUser" /\ ret.err \in NotFoundOutcomes
    /\ ~Exists(ret.email)
    /\ \E w \in Callers : call[w].pc = "write1" /\ call[w].email = ret.email

\* C8: when the last write of the account is that of a SetUserDongle(e, token),
\* GetUserDongle(e) returns (token, nil): the token of the latest SetUserDongle.
C8_DongleRoundTrip ==
    (Returned("GetUserDongle") /\ hist[ret.email].last.op = "SetUserDongle")
        => (ret.err = NoErr /\ ret.str = hist[ret.email].last.arg)

\* C8's case: GetUserDongle returned the token SetUserDongle stored.
C8_Witness ==
    /\ Returned("GetUserDongle") /\ ret.err = NoErr /\ ret.str = "token-B"
    /\ hist[ret.email].last = [op |-> "SetUserDongle", arg |-> "token-B", saw |-> TRUE]

\* C9: the write that ends a mutation is unconditional: on an existing account it
\* succeeds and persists exactly the caller's copy, whatever was written since
\* the caller read it (no version is compared, no conflict is reported).
C9_LastWriterWins ==
    [][\A w \in Callers, e \in Emails :
          (CallSetUser(w) /\ call[w].email = e /\ Exists(e))
              => (/\ ret'.err = NoErr
                  /\ Exists(e)'
                  /\ StoredUser(e)' = call[w].user)]_vars

\* C9's case: a ConfirmUser and a SetUserDongle both returned nil, the SetUserDongle
\* last, and the persisted account is not confirmed: the confirmation is lost.
C9_Witness ==
    /\ ret.op = "SetUserDongle" /\ ret.err = NoErr /\ ret.at = "UpdateFile"
    /\ hist[ret.email].confirmed
    /\ Exists(ret.email) /\ ~StoredUser(ret.email).confirmed
    /\ StoredUser(ret.email).dongle = ret.arg

\* C10: the write that ends a mutation of an account deleted since the read fails
\* with the store's not-found error and leaves the account absent.
C10_NoResurrection ==
    [][\A w \in Callers, e \in Emails :
          (CallSetUser(w) /\ call[w].email = e /\ ~Exists(e))
              => (/\ ret'.err = ErrNotFound
                  /\ ~Exists(e)'
                  /\ files' = files /\ dirs' = dirs)]_vars

\* C10's case: a mutation read the account and failed at its write.
C10_Witness ==
    /\ ret.op \in Mutations /\ ret.at = "UpdateFile" /\ ret.err = ErrNotFound
    /\ ~Exists(ret.email)

\* A step of a call of worker w, on the account of e, of one of the six methods
\* that start with GetUser.
GetUserCall(w, e) ==
    \/ CallGetUser(w, e)
    \/ \E p \in Passwords : CallAuthenticateUser(w, e, p)
    \/ CallGetUserDongle(w, e)
    \/ \E p \in AnyPassword : UpdatePassword(w, e, p)
    \/ \E d \in Dongles : SetUserDongle(w, e, d)
    \/ ConfirmUser(w, e)

\* C11: GetUser, AuthenticateUser, UpdatePassword, SetUserDongle, GetUserDongle and
\* ConfirmUser on an email with no account return a not-found outcome, which is
\* not the error of a failing backend, and are over: they leave the files and the
\* directories as they were.  With the backend down they return its failure.
C11_AbsentAccountNotFound ==
    [][\A w \in Callers, e \in Emails :
          (GetUserCall(w, e) /\ ~Exists(e))
              => (/\ ret'.email = e /\ call'[w] = Idle
                  /\ files' = files /\ dirs' = dirs
                  /\ ErrBackendUnavailable \notin NotFoundOutcomes
                  /\ IF backend = "up"
                     THEN ret'.err \in NotFoundOutcomes
                     ELSE ret'.err = ErrBackendUnavailable)]_vars

\* C11's case: a mutation found no account at its read, the backend being up and
\* the directories in place.
C11_Witness ==
    /\ ret.op \in Mutations /\ ret.at = "GetFile" /\ ret.err \in NotFoundOutcomes
    /\ ~Exists(ret.email) /\ backend = "up" /\ dirs # {}

\* C12: UserExists returns (false, nil) when the store reports no file, (true, nil)
\* when the read succeeds, and the error of the read for every other failure,
\* never (false, nil).
C12_UserExistsMapsOutcomes ==
    Returned("UserExists")
        => IF backend = "up"
           THEN ret.err = NoErr /\ ret.val = Exists(ret.email)
           ELSE ret.err = ErrBackendUnavailable

\* C12's case: UserExists on an existing account returned the failure of the
\* backend.
C12_Witness ==
    /\ Returned("UserExists") /\ backend = "down" /\ Exists(ret.email)
    /\ ret.err = ErrBackendUnavailable /\ ret.val = FALSE

\* The call of worker w has returned a failure in this step.
Failed(w) == ret'.op # "none" /\ ret'.err # NoErr /\ call'[w] = Idle

\* C13: a step of a call whose store call fails ends the call with a failure:
\* every store call while the backend is down, and, the backend being up, a
\* CreateFile, UpdateFile or DeleteFile the store refuses and the read of a method
\* that starts with GetUser when there is no file.  (The absence UserExists reads
\* is no failure.)
C13_StoreFailureFails ==
    [][\A w \in Callers, e \in Emails :
          /\ (CallsOf(w, Emails, Passwords, Dongles) /\ backend = "down") => Failed(w)
          /\ (/\ CreateUserFile(w) /\ call[w].email = e
              /\ CreateFile(getUserPath(e), ToJSON(call[w].user)).err # NoErr) => Failed(w)
          /\ (/\ CallSetUser(w) /\ call[w].email = e
              /\ UpdateFile(getUserPath(e), ToJSON(call[w].user)).err # NoErr) => Failed(w)
          /\ (/\ DeleteUserFile(w) /\ call[w].email = e
              /\ DeleteFile(getUserPath(e)).err # NoErr) => Failed(w)
          /\ (GetUserCall(w, e) /\ GetFile(getUserPath(e), "error").err # NoErr)
                => Failed(w)]_vars

\* C13's case: CreateUser returned the failure of its second CreateDir, the first
\* having succeeded.
C13_Witness ==
    /\ ret.op = "CreateUser" /\ ret.at = "CreateDir"
    /\ ret.err = Wrap("error creating users directory", ErrBackendUnavailable)
    /\ <<"home">> \in dirs /\ <<"home", UserDir>> \notin dirs

\* The number of occurrences of the character c in s.
Count(s, c) == Cardinality({i \in 1..Len(s) : s[i] = c})

\* C14: ValidateEmail(email) is true exactly when email holds "@" exactly once and
\* has more than 3 characters.
C14_ValidateEmailExactlyOne ==
    Returned("ValidateEmail")
        => (ret.val = (Count(ret.email, "@") = 1 /\ Len(ret.email) > 3))

\* C15: CreateUser calls the store in the order existence check, CreateDir(home),
\* CreateDir(home/users), CreateFile: home exists when home/users is created, both
\* exist when CreateFile is called, and after every CreateUser that succeeds; the
\* CreateFile of an email with no account succeeds, whatever other account
\* exists; and a CreateUser that returns at its check or at the construction of
\* the model (its only store call was the GetFile of the check) has failed and
\* leaves the directories as they were.
C15_CreateUserOrder ==
    [][\A w \in Callers, e \in Emails :
          /\ CreateUserHome(w) => call'[w].pc = "users"
          /\ CreateUserUsers(w) => (<<"home">> \in dirs /\ call'[w].pc = "file")
          /\ CreateUserFile(w) => {<<"home">>, <<"home", UserDir>>} \subseteq dirs
          /\ (CreateUserFile(w) /\ call[w].email = e /\ ~Exists(e))
                => (ret'.err = NoErr /\ Exists(e)')
          /\ (ret'.op = "CreateUser" /\ ret'.err = NoErr)
                => (/\ ret'.at = "CreateFile"
                    /\ {<<"home">>, <<"home", UserDir>>} \subseteq dirs')
          /\ (ret'.op = "CreateUser" /\ ret'.at = "GetFile")
                => (ret'.err # NoErr /\ dirs' = dirs /\ files' = files)]_vars

\* C15's case: the CreateUser of a second email succeeded, the account of the
\* first existing.
C15_Witness ==
    /\ ret.op = "CreateUser" /\ ret.err = NoErr /\ ret.email = "a@b.co"
    /\ Exists("a@b.co") /\ Exists("u@x.com")
    /\ hist["u@x.com"].last.op \in Mutations

\* C16: the file a successful CreateUser creates holds confirmed = false, and a
\* step after which the persisted account of e is confirmed, when it was not (or
\* was absent) before, is the write of a ConfirmUser(e).
C16_ConfirmedOnlyByConfirmUser ==
    [][\A e \in Emails :
          /\ \A w \in Callers :
                (CreateUserFile(w) /\ call[w].email = e /\ ret'.err = NoErr)
                    => (Exists(e)' /\ ~StoredUser(e)'.confirmed)
          /\ (/\ Exists(e)' /\ StoredUser(e)'.confirmed
              /\ ~(Exists(e) /\ StoredUser(e).confirmed))
                => \E w \in Callers :
                      /\ CallSetUser(w)
                      /\ call[w].op = "ConfirmUser" /\ call[w].email = e]_vars

\* C17: of the CreateUser calls for one email that passed the existence check
\* together, the first to reach CreateFile succeeds and persists its own record,
\* with its password; each later one fails with the store's already-exists error
\* and leaves the file as it is.
C17_OneCreateUserWins ==
    [][\A w \in Callers, e \in Emails :
          (CreateUserFile(w) /\ call[w].email = e)
              => IF Exists(e)
                 THEN ret'.err = ErrAlreadyExists /\ files' = files
                 ELSE /\ ret'.err = NoErr /\ Exists(e)'
                      /\ StoredUser(e)' = call[w].user
                      /\ Authenticate(call[w].user, call[w].arg)]_vars

\* C17's case: a CreateUser with another password lost to the one that made the
\* account, which is as the winner wrote it.
C17_Witness ==
    /\ ret.op = "CreateUser" /\ ret.at = "CreateFile" /\ ret.err = ErrAlreadyExists
    /\ ret.arg \in Passwords /\ Exists(ret.email)
    /\ hist[ret.email].last.op = "CreateUser" /\ hist[ret.email].created # ret.arg
    /\ Authenticate(StoredUser(ret.email), hist[ret.email].created)

\* C18: when calls on an account do not overlap, the write that ends a mutation
\* changes one field of the persisted account: UpdatePassword the password hash,
\* SetUserDongle the dongle, ConfirmUser the confirmed flag; the other fields, the
\* email among them, stay as they were.
C18_OneFieldChanges ==
    [][\A w \in Callers, e \in Emails :
          (CallSetUser(w) /\ call[w].email = e /\ Exists(e))
              => (/\ ret'.err = NoErr /\ Exists(e)'
                  /\ StoredUser(e)'.email = StoredUser(e).email
                  /\ (call[w].op # "UpdatePassword")
                        => StoredUser(e)'.password_hash = StoredUser(e).password_hash
                  /\ (call[w].op # "SetUserDongle")
                        => StoredUser(e)'.dongle = StoredUser(e).dongle
                  /\ (call[w].op # "ConfirmUser")
                        => StoredUser(e)'.confirmed = StoredUser(e).confirmed
                  /\ (call[w].op = "UpdatePassword")
                        => StoredUser(e)'.password_hash = HashPassword(call[w].arg)
                  /\ (call[w].op = "SetUserDongle") => StoredUser(e)'.dongle = call[w].arg
                  /\ (call[w].op = "ConfirmUser") => StoredUser(e)'.confirmed)]_vars

\* C18's case: an UpdatePassword replaced the password of a confirmed account
\* that has a token, and both are still there.
C18_Witness ==
    /\ ret.op = "UpdatePassword" /\ ret.at = "UpdateFile" /\ ret.err = NoErr
    /\ ret.arg = "secret2" /\ Exists(ret.email)
    /\ StoredUser(ret.email).password_hash = HashPassword("secret2")
    /\ StoredUser(ret.email).confirmed /\ StoredUser(ret.email).dongle = "token-B"

\* A step of a call on the account of e: the call returns in it (ret holds the
\* email it was called with), or it is entered or goes on to its next store call.
ActsOn(e) ==
    \/ ret'.op # "none" /\ ret'.email = e
    \/ \E w \in Callers : call'[w] # call[w] /\ call'[w].email = e

\* C19: a step of a call on the account of e1 changes no path but that of e1's
\* file, and adds no directory but home and home/users: the account of another
\* email e2 exists after it if and only if it did before, with the same fields,
\* and no directory is removed, by DeleteUser as by every other call.
C19_OtherAccountsUntouched ==
    [][\A e1 \in Emails, e2 \in Emails :
          (e1 # e2 /\ ActsOn(e1))
              => (/\ Exists(e2)' = Exists(e2)
                  /\ Exists(e2) => StoredUser(e2)' = StoredUser(e2)
                  /\ \A path \in (DOMAIN files \cup DOMAIN files') \ {getUserPath(e1)} :
                        /\ path \in DOMAIN files /\ path \in DOMAIN files'
                        /\ files'[path] = files[path]
                  /\ dirs \subseteq dirs'
                  /\ dirs' \subseteq dirs \cup {<<"home">>, <<"home", UserDir>>})]_vars

\* C19's case: a DeleteUser removed one account, and the other, confirmed, and
\* the two directories are in place.
C19_Witness ==
    /\ ret.op = "DeleteUser" /\ ret.at = "DeleteFile" /\ ret.err = NoErr
    /\ ret.email = "a@b.co" /\ ~Exists("a@b.co")
    /\ Exists("u@x.com") /\ StoredUser("u@x.com").confirmed
    /\ StoredUser("u@x.com").dongle = "token-A"
    /\ {<<"home">>, <<"home", UserDir>>} \subseteq dirs

====
